---- MODULE Spec2Model ----
(***************************************************************************)
(* State-machine model of src/modules/tts-client-wrapper.ts: the two TTS   *)
(* clients (DeepgramTTSClient over fetch, UniversalTTSClient over the      *)
(* async generator of edge-tts-universal), the stream handles they return  *)
(* and the helpers createProsodyOptions / getVoiceForSettings.             *)
(*                                                                         *)
(* JavaScript runs each stretch of code between two awaits atomically, so  *)
(* every action below is one such stretch: a public call made by the host  *)
(* (setMetadata, toStream, on, emit) or one resumption of the background   *)
(* task after its await settled, including every listener it invokes.      *)
(***************************************************************************)
EXTENDS Integers, Sequences, FiniteSets, TLC

\* ------------------------------------------------------------- bounds
\* Chunks (generator yields / body reads) a backend produces per session.
MaxChunks == 2
\* on(...) calls made on one stream handle.
MaxListeners == 2
\* emit(...) calls the host makes itself on one stream handle.
MaxHostEmits == 1
\* consumeAsyncGenerator invocations on a handle whose host calls it itself.
MaxLoops == 2

\* ------------------------------------------------------ JavaScript values
\* The value `undefined` where a string is expected.
Undefined == "<undefined>"

\* Byte arrays, errors and the other payload shapes are tagged records.
U8(bytes) == [t |-> "Uint8Array", bytes |-> bytes]
Err(message) == [t |-> "Error", message |-> message]
UndefinedValue == [t |-> "undefined"]

\* a || b on strings: b when a is undefined or ''.
Or(a, b) == IF a = Undefined \/ a = "" THEN b ELSE a

\* The vertical tab, U+000B, which has no escape in a string of this module
\* and stands in it as the character itself.
VerticalTab == ""

\* The characters String.prototype.trim strips, as far as a string of this
\* module can hold them: the ASCII ones (trim also strips U+00A0, U+FEFF,
\* U+2028, U+2029 and the Unicode space separators).
Whitespace == {" ", "\t", "\n", "\r", "\f", VerticalTab}

RECURSIVE TrimStart(_)
TrimStart(s) ==
  IF Len(s) > 0 /\ SubSeq(s, 1, 1) \in Whitespace
  THEN TrimStart(SubSeq(s, 2, Len(s)))
  ELSE s

RECURSIVE TrimEnd(_)
TrimEnd(s) ==
  IF Len(s) > 0 /\ SubSeq(s, Len(s), Len(s)) \in Whitespace
  THEN TrimEnd(SubSeq(s, 1, Len(s) - 1))
  ELSE s

\* String.prototype.trim
Trim(s) == TrimEnd(TrimStart(s))

UpperCase == "ABCDEFGHIJKLMNOPQRSTUVWXYZ"
LowerCase == "abcdefghijklmnopqrstuvwxyz"

LowerOf ==
  [c \in {SubSeq(UpperCase, i, i) : i \in 1..Len(UpperCase)} |->
     LET i == CHOOSE j \in 1..Len(UpperCase) : SubSeq(UpperCase, j, j) = c
     IN SubSeq(LowerCase, i, i)]

LowerChar(c) == IF c \in DOMAIN LowerOf THEN LowerOf[c] ELSE c

RECURSIVE ToLowerCase(_)
ToLowerCase(s) ==
  IF Len(s) = 0 THEN s
  ELSE LowerChar(SubSeq(s, 1, 1)) \o ToLowerCase(SubSeq(s, 2, Len(s)))

\* String.prototype.includes
Includes(s, needle) ==
  \E i \in 1..(Len(s) - Len(needle) + 1) : SubSeq(s, i, i + Len(needle) - 1) = needle

\* ------------------------------------------------------------ pure helpers
\* Numbers are tagged records too; a rate n stands for the multiplier n/1000.
Num(n) == [t |-> "number", n |-> n]

\* A plain object is a function from its field names to their values.
EmptyObject == [f \in {} |-> Undefined]
Field(obj, f) == IF f \in DOMAIN obj THEN obj[f] ELSE Undefined

\* Percentage cutting the fraction off (Math.floor) instead of rounding.
PercentageFloor(n) == (n - 1000) \div 10

\* The rates createProsodyOptions is modelled for: n/1000 for n in RateDomain.
RateDomain == (0 - 10000)..10000

\* The rates n/1000 of RateDomain at which (rate - 1) * 100 is half way
\* between two integers in exact arithmetic and its double-precision value
\* lies below that half (at every other such rate it lies on it or above).
TiesBelowHalf ==
  {-9175, -9095, -9085, -9005, -8925, -8845, -8835, -8755, -8675, -8595,
   -8585, -8505, -8425, -8345, -8335, -8255, -8175, -8095, -8085, -8005,
   -7995, -7925, -7905, -7835, -7815, -7745, -7675, -7655, -7585, -7565,
   -7495, -7425, -7405, -7335, -7315, -7245, -7175, -7155, -7085, -7065,
   -4105, -4065, -4025, -3935, -3855, -3845, -3775, -3765, -3685, -3605,
   -3595, -3525, -3515, -3435, -3355, -3345, -3275, -3265, -3185, -3105,
   -3095, -3025, -3015, -1985, -1735, -1485, -1445, -1405, -1365, -1325,
   -1235, -1195, -1155, -1115, -1075, -805, -555, -265, -245, -225,
   -215, 285, 565, 575, 695, 705, 715, 725, 815, 825,
   835, 845, 855, 945, 955, 965, 975, 985, 995, 1005,
   1015, 1025, 1035, 1045, 1055, 1065, 1075, 1085, 1095, 1105,
   1255, 1265, 1275, 1285, 1295, 1305, 1315, 1325, 1505, 1515,
   1525, 1535, 1545, 1555, 1565, 1575, 1755, 1765, 1775, 1785,
   2005, 2025, 2135, 2155, 2175, 2195, 2215, 2235, 2255, 2275,
   2385, 2405, 2425, 2445, 2635, 2655, 2675, 2695, 2885, 2905,
   2925, 2945, 3135, 3155, 3175, 3195, 3385, 3405, 3425, 3445,
   4015, 4145, 4185, 4225, 4265, 4395, 4435, 4475, 4515, 4645,
   4685, 4725, 4765, 4895, 4935, 4975, 5015, 5145, 5185, 5225,
   5265, 5395, 5435, 5475, 5515, 5645, 5685, 5725, 5765, 5895,
   5935, 5975, 6015, 8075, 8155, 8165, 8245, 8325, 8405, 8415,
   8495, 8575, 8655, 8665, 8745, 8825, 8905, 8915, 8995, 9075,
   9155, 9165, 9245, 9325, 9405, 9415, 9495, 9575, 9655, 9665,
   9745, 9825, 9905, 9915, 9995}

\* Math.round((rate - 1) * 100) for the double rate = n/1000, n in RateDomain:
\* floor(x + 1/2) of the double-precision product x, which is on the same
\* side of every half as the exact product, other than at TiesBelowHalf. It
\* has no value for a rate outside RateDomain.
Percentage(n) ==
  CASE n \in RateDomain ->
    LET halfUp == (2 * (n - 1000) + 10) \div 20
    IN IF n \in TiesBelowHalf THEN halfUp - 1 ELSE halfUp

\* createProsodyOptions(rate)
createProsodyOptions(rate) ==
  IF rate # UndefinedValue
  THEN LET percentage == Percentage(rate.n)
       IN IF percentage # 0
          THEN [f \in {"rate"} |->
                  IF percentage > 0
                  THEN "+" \o ToString(percentage) \o "%"
                  ELSE ToString(percentage) \o "%"]
          ELSE EmptyObject
  ELSE EmptyObject

DefaultDeepgramModel == "aura-asteria-en"

\* A call that ends by throwing: what it gives in place of a return value.
Throw(error) == [t |-> "throw", error |-> error]

\* The TypeError of reading a property of undefined.
TypeErrorReading(property) ==
  [t |-> "TypeError",
   message |-> "Cannot read properties of undefined (reading '" \o property \o "')"]

\* getVoiceForSettings returning the custom voice as it was typed, untrimmed.
getVoiceForSettingsUntrimmed(settings) ==
  IF settings.ttsEngine = "deepgram"
  THEN Or(Trim(Or(settings.deepgramModel, DefaultDeepgramModel)), DefaultDeepgramModel)
  ELSE IF settings.customVoice = Undefined THEN Throw(TypeErrorReading("trim"))
  ELSE IF Trim(settings.customVoice) # "" THEN settings.customVoice
       ELSE settings.selectedVoice

\* getVoiceForSettings(settings): settings.customVoice.trim() is called on the
\* field as it is, and throws when the field is undefined.
getVoiceForSettings(settings) ==
  IF settings.ttsEngine = "deepgram"
  THEN Or(Trim(Or(settings.deepgramModel, DefaultDeepgramModel)), DefaultDeepgramModel)
  ELSE IF settings.customVoice = Undefined THEN Throw(TypeErrorReading("trim"))
  ELSE Or(Trim(settings.customVoice), settings.selectedVoice)

\* v instanceof Uint8Array (a Node Buffer is a Uint8Array)
IsUint8Array(v) == v.t \in {"Uint8Array", "Buffer"}

\* BufferPolyfill.from(data)
BufferPolyfillFrom(data) ==
  IF data.t = "ArrayBuffer" THEN U8(data.bytes)
  ELSE IF IsUint8Array(data) THEN data
  ELSE IF data.t = "string" THEN U8(data.utf8)
  ELSE U8(<<>>)

\* JavaScript truthiness of a chunk payload / of a value read from the body.
Truthy(v) ==
  CASE v.t \in {"undefined", "null"} -> FALSE
    [] v.t = "string" -> v.s # ""
    [] v.t = "number" -> v.n # 0
    [] v.t = "boolean" -> v.b
    [] OTHER -> TRUE

\* typeof v === 'object'
IsObject(v) == v.t \in {"Uint8Array", "Buffer", "ArrayBuffer", "object", "null"}

\* The audioData computed for a forwarded chunk payload; polyfill tells
\* whether BufferPolyfill was installed (no native Buffer in the environment).
AudioData(data, polyfill) ==
  IF IsUint8Array(data) THEN data
  ELSE IF data.t = "ArrayBuffer" THEN U8(data.bytes)
  ELSE IF ~polyfill /\ data.t = "Buffer" THEN U8(data.bytes)
  ELSE IF polyfill /\ IsObject(data) THEN BufferPolyfillFrom(data)
  ELSE U8(<<>>)

\* IsForwarded without the test of chunk.data.
IsForwardedWithoutData(chunk) == chunk.type = "audio"

\* chunk.type === 'audio' && chunk.data
IsForwarded(chunk) == chunk.type = "audio" /\ Truthy(chunk.data)

\* ------------------------------------------------------------- listeners
Events == {"data", "end", "error"}

\* Invoke running the callbacks from the last registered to the first.
RECURSIVE InvokeReversed(_, _, _, _)
InvokeReversed(callbacks, event, args, cs) ==
  IF callbacks = <<>> THEN [calls |-> cs, raised |-> FALSE]
  ELSE LET cb == callbacks[Len(callbacks)]
           cs1 == Append(cs, [id |-> cb.id, ev |-> event, args |-> args, via |-> "emit"])
       IN IF cb.raises THEN [calls |-> cs1, raised |-> TRUE]
          ELSE InvokeReversed(SubSeq(callbacks, 1, Len(callbacks) - 1), event, args, cs1)

\* callbacks.forEach(callback => callback(...args)): the callbacks run in
\* order; one that raises ends the loop and the exception reaches the caller.
RECURSIVE Invoke(_, _, _, _)
Invoke(callbacks, event, args, cs) ==
  IF callbacks = <<>> THEN [calls |-> cs, raised |-> FALSE]
  ELSE LET cb == Head(callbacks)
           cs1 == Append(cs, [id |-> cb.id, ev |-> event, args |-> args, via |-> "emit"])
       IN IF cb.raises THEN [calls |-> cs1, raised |-> TRUE]
          ELSE Invoke(Tail(callbacks), event, args, cs1)


\* ----------------------------------------------------------------- state
VARIABLES
  settings,       \* the host's configuration record (EdgeTTSPluginSettings)
  polyfill,       \* TRUE when BufferPolyfill was installed at module load
  TTSPackage,     \* the provider package loaded at module load, or null
  clientKind,     \* which class createTTSClient constructed
  apiKey,         \* DeepgramTTSClient.apiKey
  model,          \* DeepgramTTSClient.model
  format,         \* DeepgramTTSClient.format
  currentVoice,   \* UniversalTTSClient.currentVoice
  currentFormat,  \* UniversalTTSClient.currentFormat
  metaCalled,     \* TRUE once setMetadata was called
  lastCall,       \* the last direct call of an exported helper, with its result
  handle,         \* outcome of toStream: "none", "returned" or "threw"
  prosodyArg,     \* the prosodyOptions argument of the toStream call
  request,        \* what the provider was asked for by the toStream call
  attempts,       \* sequence of option objects given to new CommunicateClass
  requests,       \* fetch calls issued
  listeners,      \* the stream handle's listeners map: event -> callbacks
  onCalls,        \* on(...) calls made on the handle (the callbacks' ids)
  onLog,          \* per on(...) call: its event and what had been emitted by then
  hasEnded,       \* SimpleStreamAdapter.hasEnded
  isConsuming,    \* streamAdapter.isConsuming
  loops,          \* consumeAsyncGenerator invocations
  hostEmits,      \* emit(...) calls the host made on the handle
  pc,             \* where the background task of the session stands
  morePc,         \* where the consumption loops started after the first stand
  queue,          \* requests the generator has not answered yet, oldest first
  genDone,        \* TRUE once the generator has completed
  produced,       \* chunks the backend handed over so far, in order
  bodyReads,      \* reader.read() calls issued
  fetched,        \* how fetch settled: "none", "ok", "notOk", "noBody", "rejected"
  exhausted,      \* TRUE once the backend ran to the end of its chunks
  emitted,        \* every emit(event, ...args) made on the handle, in order
  calls           \* every callback invocation, in order

clientVars == <<settings, polyfill, TTSPackage, clientKind, apiKey, model, format,
                currentVoice, currentFormat, metaCalled, lastCall>>
callVars == <<handle, prosodyArg, request, attempts, requests>>
handleVars == <<listeners, onCalls, onLog, isConsuming, loops, hostEmits>>
taskVars == <<hasEnded, pc, produced, bodyReads, fetched, exhausted, emitted, calls>>
loopVars == <<morePc, queue, genDone>>
vars == <<clientVars, callVars, handleVars, taskVars, loopVars>>

NoRequest == [t |-> "none"]

\* DeepgramConstructor keeping the API key as given, untrimmed.
DeepgramConstructorUntrimmed(options) ==
  [apiKey |-> Or(options.apiKey, ""),
   model |-> Trim(Or(options.model, DefaultDeepgramModel)),
   format |-> "mp3"]

\* new DeepgramTTSClient({ apiKey, model }): the fields it sets.
DeepgramConstructor(options) ==
  [apiKey |-> Trim(Or(options.apiKey, "")),
   model |-> Trim(Or(options.model, DefaultDeepgramModel)),
   format |-> "mp3"]

\* What loading the provider package leaves in TTSPackage: null when none of
\* its entry points could be required, otherwise the package with the classes
\* it exports.
NoPackage == [t |-> "null"]
Package(communicate, isomorphic) ==
  [t |-> "package", Communicate |-> communicate, IsomorphicCommunicate |-> isomorphic]
Packages == {NoPackage} \cup {Package(c, i) : c, i \in BOOLEAN}

\* The package as it is when the provider is installed.
LoadedPackage == Package(TRUE, FALSE)

\* A call that ended by raising.
Threw(result) == "t" \in DOMAIN result /\ result.t = "throw"

\* new UniversalTTSClient(): the fields it sets, or the error it raises when
\* the package is missing or exports neither class.
UniversalConstructor(package) ==
  IF package.t = "null"
  THEN Throw(Err("edge-tts-universal package not available"))
  ELSE IF ~package.Communicate /\ ~package.IsomorphicCommunicate
  THEN Throw(Err("No suitable Communicate class found in the loaded edge-tts-universal package. Expected Communicate or IsomorphicCommunicate."))
  ELSE [CommunicateClass |-> IF package.Communicate THEN "Communicate"
                             ELSE "IsomorphicCommunicate",
        currentVoice |-> Undefined, currentFormat |-> Undefined]

\* createTTSClient(settings), with the provider package the module loaded.
createTTSClient(s, package) ==
  IF s.ttsEngine = "deepgram"
  THEN [kind |-> "deepgram",
        fields |-> DeepgramConstructor([apiKey |-> s.deepgramApiKey,
                                        model |-> getVoiceForSettings(s)])]
  ELSE LET client == UniversalConstructor(package)
       IN IF Threw(client) THEN client ELSE [kind |-> "universal", fields |-> client]

\* The state after the module was loaded and createTTSClient(s) was called:
\* clientKind is "none" when the call raised and there is no client.
InitWith(s, noNativeBuffer, package) ==
  LET client == createTTSClient(s, package)
      kind == IF Threw(client) THEN "none" ELSE client.kind
  IN /\ settings = s
     /\ polyfill = noNativeBuffer
     /\ TTSPackage = package
     /\ clientKind = kind
     /\ apiKey = IF kind = "deepgram" THEN client.fields.apiKey ELSE Undefined
     /\ model = IF kind = "deepgram" THEN client.fields.model ELSE Undefined
     /\ format = IF kind = "deepgram" THEN client.fields.format ELSE Undefined
     /\ currentVoice = Undefined
     /\ currentFormat = Undefined
     /\ metaCalled = FALSE
     /\ lastCall = [fn |-> "none"]
     /\ handle = "none"
     /\ prosodyArg = UndefinedValue
     /\ request = NoRequest
     /\ attempts = <<>>
     /\ requests = 0
     /\ listeners = [e \in Events |-> <<>>]
     /\ onCalls = 0
     /\ onLog = <<>>
     /\ hasEnded = FALSE
     /\ isConsuming = FALSE
     /\ loops = 0
     /\ hostEmits = 0
     /\ pc = "none"
     /\ morePc = <<>>
     /\ queue = <<>>
     /\ genDone = FALSE
     /\ produced = <<>>
     /\ bodyReads = 0
     /\ fetched = "none"
     /\ exhausted = FALSE
     /\ emitted = <<>>
     /\ calls = <<>>

\* ----------------------------------------------------------- setMetadata
\* DeepgramTTSClient.setMetadata(voice, format)
DeepgramSetMetadata(voice, fmt) ==
  /\ clientKind = "deepgram"
  /\ model' = IF voice # Undefined /\ Trim(voice) # "" THEN Trim(voice) ELSE model
  /\ format' = IF fmt # Undefined /\ fmt # "" /\ Includes(ToLowerCase(fmt), "opus")
               THEN "opus" ELSE "mp3"
  /\ metaCalled' = TRUE
  /\ UNCHANGED <<settings, polyfill, TTSPackage, clientKind, apiKey, currentVoice, currentFormat, lastCall>>
  /\ UNCHANGED <<callVars, handleVars, taskVars>>
  /\ UNCHANGED loopVars

\* UniversalSetMetadata reaching into the session in flight: the request of a
\* handle already returned takes the new voice.
UniversalSetMetadataLive(voice, fmt) ==
  /\ clientKind = "universal"
  /\ currentVoice' = voice
  /\ currentFormat' = fmt
  /\ metaCalled' = TRUE
  /\ request' = IF handle = "returned"
                THEN [f \in DOMAIN request |-> IF f = "voice" THEN voice ELSE request[f]]
                ELSE request
  /\ UNCHANGED <<settings, polyfill, TTSPackage, clientKind, apiKey, model, format, lastCall>>
  /\ UNCHANGED <<handle, prosodyArg, attempts, requests>>
  /\ UNCHANGED <<handleVars, taskVars>>
  /\ UNCHANGED loopVars

\* UniversalTTSClient.setMetadata(voice, format)
UniversalSetMetadata(voice, fmt) ==
  /\ clientKind = "universal"
  /\ currentVoice' = voice
  /\ currentFormat' = fmt
  /\ metaCalled' = TRUE
  /\ UNCHANGED <<settings, polyfill, TTSPackage, clientKind, apiKey, model, format, lastCall>>
  /\ UNCHANGED <<callVars, handleVars, taskVars>>
  /\ UNCHANGED loopVars

\* ------------------------------------------------- emitting on a handle
\* The part of the state a resumption of the background task works on.
Task == [pc |-> pc, hasEnded |-> hasEnded, emitted |-> emitted, calls |-> calls,
         fetched |-> fetched, exhausted |-> exhausted, raised |-> FALSE]

Commit(s) ==
  /\ pc' = s.pc
  /\ hasEnded' = s.hasEnded
  /\ emitted' = s.emitted
  /\ calls' = s.calls
  /\ fetched' = s.fetched
  /\ exhausted' = s.exhausted

\* What a raising listener throws.
ListenerError == Err("listener raised")

\* SimpleStreamAdapter.emit(event, ...args)
SimpleEmit(s, event, args) ==
  LET r == Invoke(listeners[event], event, args, s.calls)
  IN [s EXCEPT !.hasEnded = (event = "end") \/ @,
               !.emitted = Append(@, [ev |-> event, args |-> args]),
               !.calls = r.calls,
               !.raised = r.raised]

\* streamAdapter.emit(event, ...args) of UniversalTTSClient.toStream
AdapterEmit(s, event, args) ==
  LET r == Invoke(listeners[event], event, args, s.calls)
  IN [s EXCEPT !.emitted = Append(@, [ev |-> event, args |-> args]),
               !.calls = r.calls,
               !.raised = r.raised]

\* DeepgramCatch emitting `error` alone.
DeepgramCatchErrorOnly(s, error) ==
  LET s1 == SimpleEmit(s, "error", <<error>>)
  IN [s1 EXCEPT !.pc = IF s1.raised THEN "crashed" ELSE "errored"]

\* DeepgramCatch emitting `end` before `error`.
DeepgramCatchEndFirst(s, error) ==
  LET s1 == SimpleEmit(s, "end", <<>>)
  IN IF s1.raised THEN [s1 EXCEPT !.pc = "crashed"]
     ELSE LET s2 == SimpleEmit(s1, "error", <<error>>)
          IN [s2 EXCEPT !.pc = IF s2.raised THEN "crashed" ELSE "errored"]

\* The catch block of DeepgramTTSClient.toStream's task: emit('error', error)
\* and then emit('end'); a listener that raises here ends the task at once.
DeepgramCatch(s, error) ==
  LET s1 == SimpleEmit(s, "error", <<error>>)
  IN IF s1.raised THEN [s1 EXCEPT !.pc = "crashed"]
     ELSE LET s2 == SimpleEmit(s1, "end", <<>>)
          IN [s2 EXCEPT !.pc = IF s2.raised THEN "crashed" ELSE "errored"]

\* The catch block of consumeAsyncGenerator: emit('error', error).
UniversalCatch(s, error) ==
  LET s1 == AdapterEmit(s, "error", <<error>>)
  IN [s1 EXCEPT !.pc = IF s1.raised THEN "crashed" ELSE "errored"]


\* ------------------------------------------------------ DeepgramTTSClient
ProsodyObject(rate) == [t |-> "object", rate |-> rate]

\* prosodyOptions && typeof prosodyOptions.rate === 'number'
HasNumberRate(prosodyOptions) ==
  prosodyOptions.t = "object" /\ prosodyOptions.rate.t = "number"

\* The guard of DeepgramTTSClient.toStream: if (!this.apiKey) throw.
MissingApiKey(key) == key = ""

\* The request toStream issues: url parameters, authorization and body.speed.
DeepgramRequest(prosodyOptions) ==
  [t |-> "fetch",
   model |-> model,
   encoding |-> format,
   authorization |-> "Token " \o apiKey,
   speed |-> IF HasNumberRate(prosodyOptions) /\ prosodyOptions.rate.n > 0
                /\ prosodyOptions.rate.n # 1000
             THEN prosodyOptions.rate ELSE UndefinedValue]

\* DeepgramTTSClient.toStream(text, prosodyOptions): the synchronous part, up
\* to the first await of the task it starts (fetch has been called).
DeepgramToStream(prosodyOptions) ==
  /\ clientKind = "deepgram"
  /\ handle = "none"
  /\ prosodyArg' = prosodyOptions
  /\ IF MissingApiKey(apiKey)
     THEN /\ handle' = "threw"
          /\ UNCHANGED <<request, requests, pc>>
     ELSE /\ handle' = "returned"
          /\ request' = DeepgramRequest(prosodyOptions)
          /\ requests' = requests + 1
          /\ pc' = "fetching"
  /\ UNCHANGED <<attempts, hasEnded, produced, bodyReads, fetched, exhausted, emitted, calls>>
  /\ UNCHANGED <<clientVars, handleVars>>
  /\ UNCHANGED loopVars

\* SimpleStreamAdapter.on(event, callback); the callback raises or returns.
SimpleOn(event, raises) ==
  /\ clientKind = "deepgram"
  /\ handle = "returned"
  /\ onCalls < MaxListeners
  /\ onCalls' = onCalls + 1
  /\ onLog' = Append(onLog, [id |-> onCalls + 1, ev |-> event, seen |-> emitted])
  /\ listeners' = [listeners EXCEPT
                     ![event] = Append(@, [id |-> onCalls + 1, raises |-> raises])]
  /\ calls' = IF event = "end" /\ hasEnded
              THEN Append(calls, [id |-> onCalls + 1, ev |-> "end", args |-> <<>>,
                                  via |-> "on"])
              ELSE calls
  /\ UNCHANGED <<isConsuming, loops, hostEmits>>
  /\ UNCHANGED <<hasEnded, pc, produced, bodyReads, fetched, exhausted, emitted>>
  /\ UNCHANGED <<clientVars, callVars>>
  /\ UNCHANGED loopVars

\* What the host passes to an emit call of its own.
HostArgs(event) ==
  CASE event = "data" -> <<U8(<<0>>)>>
    [] event = "end" -> <<>>
    [] event = "error" -> <<Err("raised by the host")>>

\* SimpleStreamAdapter.emit(event, ...args) called by the host: emit is a
\* public method of the handle toStream returns. An exception of a listener
\* reaches the host, and the background task stands where it stood.
HostSimpleEmit(event) ==
  /\ clientKind = "deepgram"
  /\ handle = "returned"
  /\ hostEmits < MaxHostEmits
  /\ hostEmits' = hostEmits + 1
  /\ Commit([SimpleEmit(Task, event, HostArgs(event)) EXCEPT !.pc = pc])
  /\ UNCHANGED <<listeners, onCalls, onLog, isConsuming, loops>>
  /\ UNCHANGED <<produced, bodyReads>>
  /\ UNCHANGED <<clientVars, callVars>>
  /\ UNCHANGED loopVars

\* Responses fetch may resolve with: ok is status in 200..299, hasBody
\* whether response.body?.getReader() gives a reader.
Responses ==
  {[ok |-> TRUE, status |-> 200, statusText |-> "OK", hasBody |-> b] : b \in BOOLEAN}
  \cup {[ok |-> FALSE, status |-> 500, statusText |-> "Internal Server Error",
          hasBody |-> b] : b \in BOOLEAN}
  \cup {[ok |-> FALSE, status |-> 404, statusText |-> "Not Found", hasBody |-> TRUE]}

\* new Error(`Deepgram TTS request failed (${status}: ${statusText})`)
RequestFailed(response) ==
  Err("Deepgram TTS request failed (" \o ToString(response.status) \o ": "
      \o response.statusText \o ")")

\* await fetch(...) resolved with a response.
FetchResolves(response) ==
  /\ pc = "fetching"
  /\ IF ~response.ok
     THEN /\ Commit(DeepgramCatch([Task EXCEPT !.fetched = "notOk"],
                                  RequestFailed(response)))
          /\ UNCHANGED bodyReads
     ELSE IF ~response.hasBody
     THEN /\ Commit(DeepgramCatch([Task EXCEPT !.fetched = "noBody"],
                                  Err("Deepgram response stream is not readable.")))
          /\ UNCHANGED bodyReads
     ELSE /\ Commit([Task EXCEPT !.fetched = "ok", !.pc = "reading"])
          /\ bodyReads' = bodyReads + 1
  /\ UNCHANGED produced
  /\ UNCHANGED <<clientVars, callVars, handleVars>>
  /\ UNCHANGED loopVars

\* await fetch(...) rejected.
FetchRejects ==
  /\ pc = "fetching"
  /\ Commit(DeepgramCatch([Task EXCEPT !.fetched = "rejected"], Err("network failure")))
  /\ UNCHANGED <<produced, bodyReads>>
  /\ UNCHANGED <<clientVars, callVars, handleVars>>
  /\ UNCHANGED loopVars

\* Values reader.read() may deliver as the i-th read.
ReadValues(i) == {U8(<<i>>), U8(<<>>), UndefinedValue}

\* if (value) streamAdapter.emit('data', value)
ReadIsEmitted(value) == Truthy(value)

\* await reader.read() resolved with { done: false, value }.
ReadValue(value) ==
  /\ pc = "reading"
  /\ Len(produced) < MaxChunks
  /\ produced' = Append(produced, value)
  /\ LET s == IF ReadIsEmitted(value) THEN SimpleEmit(Task, "data", <<value>>) ELSE Task
     IN IF s.raised
        THEN /\ Commit(DeepgramCatch(s, ListenerError))
             /\ UNCHANGED bodyReads
        ELSE /\ Commit(s)
             /\ bodyReads' = bodyReads + 1
  /\ UNCHANGED <<clientVars, callVars, handleVars>>
  /\ UNCHANGED loopVars

\* await reader.read() resolved with { done: true }.
ReadDone ==
  /\ pc = "reading"
  /\ LET s == SimpleEmit([Task EXCEPT !.exhausted = TRUE], "end", <<>>)
     IN IF s.raised
        THEN Commit(DeepgramCatch(s, ListenerError))
        ELSE Commit([s EXCEPT !.pc = "ended"])
  /\ UNCHANGED <<produced, bodyReads>>
  /\ UNCHANGED <<clientVars, callVars, handleVars>>
  /\ UNCHANGED loopVars

\* await reader.read() rejected.
ReadRejects ==
  /\ pc = "reading"
  /\ Commit(DeepgramCatch(Task, Err("read failure")))
  /\ UNCHANGED <<produced, bodyReads>>
  /\ UNCHANGED <<clientVars, callVars, handleVars>>
  /\ UNCHANGED loopVars

\* ----------------------------------------------------- UniversalTTSClient
\* finalProsodyOptions of toStream.
FinalProsodyOptions(prosodyOptions) ==
  IF HasNumberRate(prosodyOptions)
  THEN [f \in {"rate"} |-> Field(createProsodyOptions(prosodyOptions.rate), "rate")]
  ELSE EmptyObject

\* if (finalProsodyOptions.rate): a non-empty string is truthy.
TruthyString(v) == v # Undefined /\ v # ""

\* communicateOptions of toStream: the voice read from the client, and the
\* rate when there is one (pitch and volume are never set by this module).
CommunicateOptions(voice, prosodyOptions) ==
  LET final == FinalProsodyOptions(prosodyOptions)
  IN IF TruthyString(Field(final, "rate"))
     THEN [f \in {"voice", "rate"} |-> IF f = "voice" THEN voice ELSE final.rate]
     ELSE [f \in {"voice"} |-> voice]

\* MinimalOptions without the voice: a fallback with no options at all.
MinimalOptionsEmpty(voice) == EmptyObject

\* minimalOptions of the fallback construction.
MinimalOptions(voice) == [f \in {"voice"} |-> voice]

\* UniversalTTSClient.toStream(text, prosodyOptions). accept1 and accept2 say
\* whether the provider's constructor accepts the first and the fallback
\* options. communicate.stream() creates the generator without running it.
UniversalToStream(prosodyOptions, accept1, accept2) ==
  /\ clientKind = "universal"
  /\ handle = "none"
  /\ prosodyArg' = prosodyOptions
  /\ LET full == CommunicateOptions(currentVoice, prosodyOptions)
         minimal == MinimalOptions(currentVoice)
     IN IF accept1
        THEN /\ attempts' = <<full>>
             /\ request' = full
             /\ handle' = "returned"
             /\ pc' = "lazy"
        ELSE IF accept2
        THEN /\ attempts' = <<full, minimal>>
             /\ request' = minimal
             /\ handle' = "returned"
             /\ pc' = "lazy"
        ELSE /\ attempts' = <<full, minimal>>
             /\ handle' = "threw"
             /\ UNCHANGED <<request, pc>>
  /\ UNCHANGED <<requests, hasEnded, produced, bodyReads, fetched, exhausted, emitted, calls>>
  /\ UNCHANGED <<clientVars, handleVars>>
  /\ UNCHANGED loopVars

\* if (event === 'data' && !this.isConsuming) this.consumeAsyncGenerator()
StartsConsuming(event, consuming) == event = "data" /\ ~consuming

\* Where the i-th consumption loop of the session stands: the first loop is
\* the background task pc describes, the later ones are in morePc.
LoopPc(i) == IF i = 1 THEN pc ELSE morePc[i - 1]

\* The part of the state a resumption of the i-th loop works on.
LoopTask(i) == [Task EXCEPT !.pc = LoopPc(i)]

CommitLoop(i, s) ==
  /\ IF i = 1
     THEN /\ pc' = s.pc
          /\ UNCHANGED morePc
     ELSE /\ morePc' = [morePc EXCEPT ![i - 1] = s.pc]
          /\ UNCHANGED pc
  /\ hasEnded' = s.hasEnded
  /\ emitted' = s.emitted
  /\ calls' = s.calls
  /\ fetched' = s.fetched
  /\ exhausted' = s.exhausted

\* A request to the generator: next() of the for await loop, or the return()
\* the loop makes, and awaits, when its body is left by an exception.
Request(i, op) == [loop |-> i, op |-> op]

\* The generator answers its requests in the order they were made.
Pending(op) == queue # <<>> /\ Head(queue).op = op

\* consumeAsyncGenerator() up to its first await: the latch is set and the
\* for await loop makes its first request to the generator. The method has no
\* guard of its own: every call starts a loop.
consumeAsyncGenerator ==
  /\ isConsuming' = TRUE
  /\ loops' = loops + 1
  /\ IF loops = 0
     THEN /\ pc' = "pulling"
          /\ UNCHANGED morePc
     ELSE /\ morePc' = Append(morePc, "pulling")
          /\ UNCHANGED pc
  /\ queue' = Append(queue, Request(loops + 1, "next"))

\* streamAdapter.on(event, callback) of UniversalTTSClient.toStream, with the
\* synchronous start of consumeAsyncGenerator when it is the first on('data').
AdapterOn(event, raises) ==
  /\ clientKind = "universal"
  /\ handle = "returned"
  /\ onCalls < MaxListeners
  /\ onCalls' = onCalls + 1
  /\ onLog' = Append(onLog, [id |-> onCalls + 1, ev |-> event, seen |-> emitted])
  /\ listeners' = [listeners EXCEPT
                     ![event] = Append(@, [id |-> onCalls + 1, raises |-> raises])]
  /\ IF StartsConsuming(event, isConsuming)
     THEN consumeAsyncGenerator
     ELSE UNCHANGED <<isConsuming, loops, pc, morePc, queue>>
  /\ UNCHANGED <<hostEmits, genDone>>
  /\ UNCHANGED <<hasEnded, produced, bodyReads, fetched, exhausted, emitted, calls>>
  /\ UNCHANGED <<clientVars, callVars>>

\* streamAdapter.consumeAsyncGenerator() called by the host: the handle is an
\* object literal, and the method is as public as on and emit. The call needs
\* no listener and does not look at the latch.
HostConsumeAsyncGenerator ==
  /\ clientKind = "universal"
  /\ handle = "returned"
  /\ loops < MaxLoops
  /\ consumeAsyncGenerator
  /\ UNCHANGED <<listeners, onCalls, onLog, hostEmits, genDone>>
  /\ UNCHANGED <<hasEnded, produced, bodyReads, fetched, exhausted, emitted, calls>>
  /\ UNCHANGED <<clientVars, callVars>>

\* streamAdapter.emit(event, ...args) called by the host on the handle of
\* UniversalTTSClient.toStream, an object whose members are all public.
HostAdapterEmit(event) ==
  /\ clientKind = "universal"
  /\ handle = "returned"
  /\ hostEmits < MaxHostEmits
  /\ hostEmits' = hostEmits + 1
  /\ Commit([AdapterEmit(Task, event, HostArgs(event)) EXCEPT !.pc = pc])
  /\ UNCHANGED <<listeners, onCalls, onLog, isConsuming, loops>>
  /\ UNCHANGED <<produced, bodyReads>>
  /\ UNCHANGED <<clientVars, callVars>>
  /\ UNCHANGED loopVars

\* Chunks the provider's generator may yield as its i-th chunk.
GenChunks(i) ==
  [type : {"audio"},
   data : {U8(<<i>>), U8(<<>>), [t |-> "ArrayBuffer", bytes |-> <<i>>],
           [t |-> "string", s |-> "mp3", utf8 |-> <<109, 112, 51>>],
           [t |-> "string", s |-> "", utf8 |-> <<>>],
           [t |-> "object"], Num(0), [t |-> "boolean", b |-> FALSE],
           [t |-> "null"], UndefinedValue}]
  \cup [type : {"WordBoundary"}, data : {UndefinedValue}]

\* next() resolved with a chunk: the body of the for await loop runs. When
\* emit('data') raises, the loop is left by the exception: it calls return()
\* on the generator and awaits it before the catch block runs; otherwise it
\* asks for the next chunk.
GenYields(chunk) ==
  /\ Pending("next")
  /\ ~genDone
  /\ Len(produced) < MaxChunks
  /\ produced' = Append(produced, chunk)
  /\ LET i == Head(queue).loop
         s == IF IsForwarded(chunk)
              THEN AdapterEmit(LoopTask(i), "data", <<AudioData(chunk.data, polyfill)>>)
              ELSE LoopTask(i)
     IN IF s.raised
        THEN /\ CommitLoop(i, [s EXCEPT !.pc = "returning"])
             /\ queue' = Append(Tail(queue), Request(i, "return"))
        ELSE /\ CommitLoop(i, s)
             /\ queue' = Append(Tail(queue), Request(i, "next"))
  /\ UNCHANGED <<bodyReads, genDone>>
  /\ UNCHANGED <<clientVars, callVars, handleVars>>

\* The awaited return() settled: the generator is completed, and the catch
\* block runs with the exception that left the loop.
ReturnSettles ==
  /\ Pending("return")
  /\ LET i == Head(queue).loop
     IN CommitLoop(i, UniversalCatch(LoopTask(i), ListenerError))
  /\ queue' = Tail(queue)
  /\ genDone' = TRUE
  /\ UNCHANGED <<produced, bodyReads>>
  /\ UNCHANGED <<clientVars, callVars, handleVars>>

\* GenReturns leaving the loop without emit('end').
GenReturnsSilently ==
  /\ Pending("next")
  /\ LET i == Head(queue).loop
     IN CommitLoop(i, [LoopTask(i) EXCEPT !.exhausted = @ \/ ~genDone, !.pc = "ended"])
  /\ queue' = Tail(queue)
  /\ genDone' = TRUE
  /\ UNCHANGED <<produced, bodyReads>>
  /\ UNCHANGED <<clientVars, callVars, handleVars>>

\* next() resolved with done: the generator is exhausted, or it had completed
\* before the request (a completed generator answers every next() so). The
\* loop ends and emit('end') runs, inside the try block.
GenReturns ==
  /\ Pending("next")
  /\ LET i == Head(queue).loop
         s == AdapterEmit([LoopTask(i) EXCEPT !.exhausted = @ \/ ~genDone], "end", <<>>)
     IN IF s.raised
        THEN CommitLoop(i, UniversalCatch(s, ListenerError))
        ELSE CommitLoop(i, [s EXCEPT !.pc = "ended"])
  /\ queue' = Tail(queue)
  /\ genDone' = TRUE
  /\ UNCHANGED <<produced, bodyReads>>
  /\ UNCHANGED <<clientVars, callVars, handleVars>>

\* next() rejected: the generator raised, which completes it, and the catch
\* block runs.
GenThrows ==
  /\ Pending("next")
  /\ ~genDone
  /\ LET i == Head(queue).loop
     IN CommitLoop(i, UniversalCatch(LoopTask(i), Err("provider failure")))
  /\ queue' = Tail(queue)
  /\ genDone' = TRUE
  /\ UNCHANGED <<produced, bodyReads>>
  /\ UNCHANGED <<clientVars, callVars, handleVars>>

\* ------------------------------------------------------- exported helpers
\* A direct call of createProsodyOptions(rate) by the host.
CallCreateProsodyOptions(rate) ==
  /\ lastCall' = [fn |-> "createProsodyOptions", arg |-> rate,
                  result |-> createProsodyOptions(rate)]
  /\ UNCHANGED <<settings, polyfill, TTSPackage, clientKind, apiKey, model, format,
                 currentVoice, currentFormat, metaCalled>>
  /\ UNCHANGED <<callVars, handleVars, taskVars>>
  /\ UNCHANGED loopVars

\* A direct call of getVoiceForSettings(settings) by the host, on the
\* configuration it holds.
CallGetVoiceForSettings ==
  /\ lastCall' = [fn |-> "getVoiceForSettings", arg |-> settings,
                  result |-> getVoiceForSettings(settings)]
  /\ UNCHANGED <<settings, polyfill, TTSPackage, clientKind, apiKey, model, format,
                 currentVoice, currentFormat, metaCalled>>
  /\ UNCHANGED <<callVars, handleVars, taskVars>>
  /\ UNCHANGED loopVars

\* --------------------------------------------------------- specifications
Engines == {"edge-tts", "deepgram"}

\* Configurations the host may hold.
SettingsOf(engines, keys, models, customVoices) ==
  [ttsEngine : engines, selectedVoice : {"en-US-AvaNeural"}, customVoice : customVoices,
   deepgramApiKey : keys, deepgramModel : models]

\* A string of nothing but whitespace, every character of Whitespace in it.
Blank == " \t\r\n\f" \o VerticalTab

\* Arguments of setMetadata.
MetadataVoices == {Blank, " en-GB-SoniaNeural\r\n"}
MetadataFormats == {"audio-24khz-48kbitrate-mono-mp3", "webm-24khz-16bit-mono-opus"}

\* Spec: the whole client. The host configures a client, calls setMetadata at
\* any time, calls toStream once and registers well-behaved listeners on the
\* handle while the background task of the session advances.
Init ==
  \E s \in SettingsOf(Engines, {Undefined, "", Blank, VerticalTab \o "key\r\n"},
                      {Undefined, " aura-luna-en "}, {""}) :
    /\ s.ttsEngine = "edge-tts" => s.deepgramApiKey = Undefined /\ s.deepgramModel = Undefined
    /\ InitWith(s, FALSE, LoadedPackage)

Next ==
  \/ \E v \in MetadataVoices, f \in MetadataFormats : DeepgramSetMetadata(v, f)
  \/ \E v \in MetadataVoices, f \in MetadataFormats : UniversalSetMetadata(v, f)
  \/ \E p \in {UndefinedValue, ProsodyObject(Num(1200))} : DeepgramToStream(p)
  \/ \E p \in {UndefinedValue, ProsodyObject(Num(1200))}, a1, a2 \in BOOLEAN :
       UniversalToStream(p, a1, a2)
  \/ \E e \in Events : SimpleOn(e, FALSE)
  \/ \E e \in Events : AdapterOn(e, FALSE)
  \/ \E r \in Responses : FetchResolves(r)
  \/ FetchRejects
  \/ ReadValue(U8(<<Len(produced) + 1>>))
  \/ ReadDone
  \/ ReadRejects
  \/ GenYields([type |-> "audio", data |-> U8(<<Len(produced) + 1>>)])
  \/ GenReturns
  \/ GenThrows

Spec == Init /\ [][Next]_vars

\* SpecStream: one stream session in full, driven by its backend alone (the
\* host subscribes and never calls emit). The client is configured and never
\* reconfigured; the listeners may raise, and the backend delivers every shape
\* of chunk, in both environments (with and without a native Buffer).
InitStream ==
  \E s \in SettingsOf(Engines, {" key "}, {Undefined}, {""}), b \in BOOLEAN : InitWith(s, b, LoadedPackage)

NextStream ==
  \/ DeepgramToStream(UndefinedValue)
  \/ UniversalToStream(UndefinedValue, TRUE, TRUE)
  \/ \E e \in Events, r \in BOOLEAN : SimpleOn(e, r)
  \/ \E e \in Events, r \in BOOLEAN : AdapterOn(e, r)
  \/ \E r \in Responses : FetchResolves(r)
  \/ FetchRejects
  \/ \E v \in ReadValues(Len(produced) + 1) : ReadValue(v)
  \/ ReadDone
  \/ ReadRejects
  \/ \E c \in GenChunks(Len(produced) + 1) : GenYields(c)
  \/ GenReturns
  \/ GenThrows
  \/ ReturnSettles

SpecStream == InitStream /\ [][NextStream]_vars

\* SpecCalm: SpecStream for a host whose listeners all return normally.
NextCalm ==
  \/ DeepgramToStream(UndefinedValue)
  \/ UniversalToStream(UndefinedValue, TRUE, TRUE)
  \/ \E e \in Events : SimpleOn(e, FALSE)
  \/ \E e \in Events : AdapterOn(e, FALSE)
  \/ \E r \in Responses : FetchResolves(r)
  \/ FetchRejects
  \/ \E v \in ReadValues(Len(produced) + 1) : ReadValue(v)
  \/ ReadDone
  \/ ReadRejects
  \/ \E c \in GenChunks(Len(produced) + 1) : GenYields(c)
  \/ GenReturns
  \/ GenThrows

SpecCalm == InitStream /\ [][NextCalm]_vars

\* SpecLive: one stream session with a provider that settles every pending
\* await (the request, a read of the body, a pull of the generator) and a
\* background task that is resumed when its await has settled. The listeners
\* may raise and the host is free to register them or not; a chunk is either
\* forwarded or dropped, which is all that its shape decides for the task.
LiveReads(i) == {U8(<<i>>), UndefinedValue}
LiveChunks(i) ==
  {[type |-> "audio", data |-> U8(<<i>>)], [type |-> "WordBoundary", data |-> UndefinedValue]}

BackendStep ==
  \/ \E r \in Responses : FetchResolves(r)
  \/ FetchRejects
  \/ \E v \in LiveReads(Len(produced) + 1) : ReadValue(v)
  \/ ReadDone
  \/ ReadRejects
  \/ \E c \in LiveChunks(Len(produced) + 1) : GenYields(c)
  \/ GenReturns
  \/ GenThrows
  \/ ReturnSettles

NextLive ==
  \/ DeepgramToStream(UndefinedValue)
  \/ UniversalToStream(UndefinedValue, TRUE, TRUE)
  \/ \E e \in Events, r \in BOOLEAN : SimpleOn(e, r)
  \/ \E e \in Events, r \in BOOLEAN : AdapterOn(e, r)
  \/ BackendStep

SpecLive == InitStream /\ [][NextLive]_vars /\ WF_vars(BackendStep)

\* SpecHost: one stream session on whose handle the host, besides
\* registering listeners (which return normally), calls emit itself: the
\* handle is driven by its backend and by the host. Chunks are forwarded or
\* dropped, as in SpecLive, in an environment with a native Buffer.
InitHost ==
  \E s \in SettingsOf(Engines, {" key "}, {Undefined}, {""}) :
    InitWith(s, FALSE, LoadedPackage)

NextHost ==
  \/ DeepgramToStream(UndefinedValue)
  \/ UniversalToStream(UndefinedValue, TRUE, TRUE)
  \/ \E e \in Events : SimpleOn(e, FALSE)
  \/ \E e \in Events : AdapterOn(e, FALSE)
  \/ \E e \in Events : HostSimpleEmit(e)
  \/ \E e \in Events : HostAdapterEmit(e)
  \/ \E r \in Responses : FetchResolves(r)
  \/ FetchRejects
  \/ \E v \in LiveReads(Len(produced) + 1) : ReadValue(v)
  \/ ReadDone
  \/ ReadRejects
  \/ \E c \in LiveChunks(Len(produced) + 1) : GenYields(c)
  \/ GenReturns
  \/ GenThrows

SpecHost == InitHost /\ [][NextHost]_vars

\* SpecLoops: one Generator-Backed session on whose handle the host, besides
\* registering listeners (which may raise), calls consumeAsyncGenerator
\* itself, before or after a `data` listener is registered and at any moment
\* of the session. The loops share the one generator, which answers their
\* requests in turn.
InitLoops ==
  \E s \in SettingsOf({"edge-tts"}, {Undefined}, {Undefined}, {""}) :
    InitWith(s, FALSE, LoadedPackage)

NextLoops ==
  \/ UniversalToStream(UndefinedValue, TRUE, TRUE)
  \/ \E e \in Events, r \in BOOLEAN : AdapterOn(e, r)
  \/ HostConsumeAsyncGenerator
  \/ \E c \in LiveChunks(Len(produced) + 1) : GenYields(c)
  \/ GenReturns
  \/ GenThrows
  \/ ReturnSettles

SpecLoops == InitLoops /\ [][NextLoops]_vars

\* SpecProsody: the rate conversion over a range of rates, the rates n/1000
\* around 1 in steps of 0.001, those half way between two percentages among
\* them.
MaxRateSteps == 250

RateInputs == {Num(1000 + k) : k \in (0 - MaxRateSteps)..MaxRateSteps}

ProsodyInputs ==
  {UndefinedValue, ProsodyObject(UndefinedValue),
   ProsodyObject([t |-> "string", s |-> "+20%"])}
  \cup {ProsodyObject(r) : r \in RateInputs}

\* The host either calls the helper directly or calls toStream.
NextProsody ==
  \/ \E r \in RateInputs \cup {UndefinedValue} :
       handle = "none" /\ CallCreateProsodyOptions(r)
  \/ \E p \in ProsodyInputs : lastCall.fn = "none" /\ DeepgramToStream(p)
  \/ \E p \in ProsodyInputs, a1, a2 \in BOOLEAN :
       lastCall.fn = "none" /\ UniversalToStream(p, a1, a2)

SpecProsody == InitStream /\ [][NextProsody]_vars

\* SpecSettings: the Client Selector over the configurations of the host. The
\* host builds the client, asks for the effective voice and sets metadata.
CustomVoices ==
  {"", " \t", VerticalTab, " en-GB-RyanNeural\r\n", "zh-CN-XiaoxiaoNeural" \o VerticalTab}
DeepgramModels ==
  {Undefined, "", Blank, VerticalTab \o "aura-luna-en\r\n", "aura-2-thalia-en"}

InitSettings ==
  \E s \in SettingsOf(Engines, {" key "}, DeepgramModels, CustomVoices), p \in Packages :
    InitWith(s, FALSE, p)

NextSettings ==
  \/ lastCall.fn = "none" /\ CallGetVoiceForSettings
  \/ \E v \in MetadataVoices, f \in MetadataFormats : DeepgramSetMetadata(v, f)
  \/ \E v \in MetadataVoices, f \in MetadataFormats : UniversalSetMetadata(v, f)

SpecSettings == InitSettings /\ [][NextSettings]_vars

\* ================================================================ claims
\* Positions of an event in the sequence of emits of the session.
Positions(event) == {i \in DOMAIN emitted : emitted[i].ev = event}
Terminal == Positions("end") \cup Positions("error")

\* A listener of the event raised while the event was being emitted.
ListenerRaised(event) ==
  \E k \in DOMAIN calls :
    /\ calls[k].ev = event
    /\ calls[k].via = "emit"
    /\ \E i \in DOMAIN listeners[event] :
         listeners[event][i].id = calls[k].id /\ listeners[event][i].raises

AnyListenerRaised == \E e \in Events : ListenerRaised(e)

\* C1: a session emits at most one terminal event: `end` and `error` are never
\* both emitted on one session, and neither is emitted twice.
C1_OneTerminalEvent == Cardinality(Terminal) <= 1

\* The `data` events of the session, in the order of their emission.
IsDataEvent(e) == e.ev = "data"
DataEvents == SelectSeq(emitted, IsDataEvent)

\* A payload is present: the value is none of undefined, null, false, 0 and
\* the empty string.
HasPayload(v) ==
  /\ v.t \notin {"undefined", "null"}
  /\ ~(v.t = "string" /\ v.s = "")
  /\ ~(v.t = "number" /\ v.n = 0)
  /\ ~(v.t = "boolean" /\ ~v.b)

\* The payloads of the audio-bearing chunks the backend produced, in order: of
\* the generator's chunks those tagged audio that carry a payload, of the
\* reads of the response body those that delivered a value.
IsAudioBearing(c) ==
  IF clientKind = "universal" THEN c.type = "audio" /\ HasPayload(c.data) ELSE HasPayload(c)
AudioBearing ==
  LET kept == SelectSeq(produced, IsAudioBearing)
  IN [i \in 1..Len(kept) |-> IF clientKind = "universal" THEN kept[i].data ELSE kept[i]]

\* A payload that is a byte array or an array buffer.
IsByteShaped(v) == v.t \in {"Uint8Array", "ArrayBuffer", "Buffer"}

\* What the `data` event of a chunk is to carry: the bytes of a byte array or
\* an array buffer; for a payload of another shape the payload itself, or a
\* zero-length chunk in its place when the adapter is allowed to degrade.
Carried(v, degrades) ==
  IF IsByteShaped(v) THEN U8(v.bytes) ELSE IF degrades THEN U8(<<>>) ELSE v

\* The `data` events are exactly the audio-bearing chunks produced so far,
\* one event per chunk and in the order of production (chunks that are not
\* audio-bearing produce none); no `data` event follows a terminal event; and
\* once the backend has finished, the n `data` events are followed by `end`.
ChunksInOrder(degrades) ==
  /\ Len(DataEvents) = Len(AudioBearing)
  /\ \A i \in 1..Len(DataEvents) :
       DataEvents[i].args = <<Carried(AudioBearing[i], degrades)>>
  /\ \A i \in Terminal, j \in Positions("data") : j < i
  /\ exhausted =>
       /\ Len(emitted) > Len(DataEvents)
       /\ \A i \in 1..Len(DataEvents) : emitted[i].ev = "data"
       /\ emitted[Len(DataEvents) + 1].ev = "end"

\* the call, exactly once and without arguments.
C3_LateEndListener ==
  \A k \in DOMAIN onLog :
    (onLog[k].ev = "end" /\ \E i \in DOMAIN onLog[k].seen : onLog[k].seen[i].ev = "end") =>
      LET mine == {c \in DOMAIN calls : calls[c].id = onLog[k].id /\ calls[c].via = "on"}
      IN /\ Cardinality(mine) = 1
         /\ \A c \in mine : calls[c].ev = "end" /\ calls[c].args = <<>>

\* C4: on a Generator-Backed session nothing is pulled from the generator,
\* and nothing is emitted, while no `data` listener has been registered.
C4_LazyStart ==
  (clientKind = "universal" /\ listeners["data"] = <<>>) =>
    /\ pc \in {"none", "lazy"}
    /\ ~isConsuming
    /\ loops = 0
    /\ queue = <<>>
    /\ produced = <<>>
    /\ emitted = <<>>

\* C5: every `data` event carries a non-empty byte chunk; on a session of the
\* HTTP-Streaming Adapter a `data` event is emitted for a non-empty read only.
C5_NonEmptyData ==
  \A i \in Positions("data") : emitted[i].args[1].bytes # <<>>

\* A payload of unrecognized shape: a value (not undefined, not null) that is
\* neither a byte array nor an array buffer.
IsUnrecognized(v) == v.t \notin {"undefined", "null"} /\ ~IsByteShaped(v)

\* C6: when the generator yields an audio chunk whose payload has an
\* unrecognized shape, exactly one `data` event with a zero-length chunk is
\* emitted for it, nothing else is emitted (no `error`) and the loop goes on
\* pulling.
C6_ZeroLengthChunk ==
  [][(/\ clientKind = "universal"
      /\ Len(produced') = Len(produced) + 1
      /\ produced'[Len(produced')].type = "audio"
      /\ IsUnrecognized(produced'[Len(produced')].data))
     => /\ emitted' = Append(emitted, [ev |-> "data", args |-> <<U8(<<>>)>>])
        /\ pc' = "pulling"]_vars

\* A credential that is missing, empty or made of whitespace only.
IsBlank(str) ==
  str = Undefined \/ \A i \in 1..Len(str) : SubSeq(str, i, i) \in Whitespace

\* C7: toStream of the HTTP-Streaming Adapter on a client configured with an
\* empty credential raises during the call: no handle, no session, no network
\* request, and no event or listener call ever.
C7_EmptyCredential ==
  (clientKind = "deepgram" /\ IsBlank(settings.deepgramApiKey) /\ handle # "none") =>
    /\ handle = "threw"
    /\ requests = 0
    /\ request = NoRequest
    /\ pc = "none"
    /\ onCalls = 0
    /\ emitted = <<>>
    /\ calls = <<>>

\* toStream was called with a whitespace-only API key configured.
C7_Witness ==
  /\ clientKind = "deepgram"
  /\ settings.deepgramApiKey = Blank
  /\ handle = "threw"
  /\ metaCalled

\* C8: a non-success response makes the HTTP-Streaming session emit exactly
\* `error` and then `end`, no `data`, and the body is never read.
C8_NonSuccessStatus ==
  fetched = "notOk" =>
    /\ \E r \in Responses :
         /\ ~r.ok
         /\ emitted = <<[ev |-> "error", args |-> <<RequestFailed(r)>>],
                        [ev |-> "end", args |-> <<>>]>>
    /\ bodyReads = 0
    /\ produced = <<>>
    /\ requests = 1
    /\ pc = "errored"

\* The response was not ok and the listeners of the host heard `error`, then
\* `end`.
C8_Witness ==
  /\ fetched = "notOk"
  /\ Len(calls) = 2
  /\ calls[1].ev = "error"
  /\ calls[2].ev = "end"

\* C9: a toStream call made before any setMetadata call asks the provider for
\* a defined default voice (model) and format.
C9_DefaultMetadata ==
  (handle = "returned" /\ ~metaCalled) =>
    IF clientKind = "universal"
    THEN \A i \in DOMAIN attempts : ~IsBlank(Field(attempts[i], "voice"))
    ELSE ~IsBlank(request.model) /\ request.encoding \in {"mp3", "opus"}

\* p is round((rate - 1) * 100) for the rate n/1000: an integer nearest to
\* (n - 1000) / 10. Half way between two integers both are nearest, and the
\* rounding of the double-precision product picks one.
IsNearestPercentage(p, n) ==
  /\ 2 * (10 * p - (n - 1000)) <= 10
  /\ 2 * ((n - 1000) - 10 * p) <= 10

Percentages == (0 - MaxRateSteps)..MaxRateSteps

RECURSIVE Decimal(_)
Decimal(n) ==
  IF n < 10 THEN SubSeq("0123456789", n + 1, n + 1)
  ELSE Decimal(n \div 10) \o SubSeq("0123456789", (n % 10) + 1, (n % 10) + 1)

\* '+p%' for p > 0 and '-|p|%' for p < 0.
SignedPercentage(p) ==
  IF p > 0 THEN "+" \o Decimal(p) \o "%" ELSE "-" \o Decimal(0 - p) \o "%"

\* The fields createProsodyOptions is to give for the percentage p.
ExpectedProsody(p) ==
  IF p = 0 THEN EmptyObject ELSE [f \in {"rate"} |-> SignedPercentage(p)]

\* C10: createProsodyOptions(rate) has no rate field when rate is undefined
\* or rounds to 0%, and the signed percentage string otherwise; toStream of
\* the Generator-Backed Adapter gives the provider's constructor a rate option
\* exactly when that result has a rate field, and then this string.
C10_ProsodyRate ==
  /\ lastCall.fn = "createProsodyOptions" =>
       IF lastCall.arg = UndefinedValue THEN lastCall.result = EmptyObject
       ELSE \E p \in Percentages :
              /\ IsNearestPercentage(p, lastCall.arg.n)
              /\ lastCall.result = ExpectedProsody(p)
  /\ (/\ clientKind = "universal"
      /\ handle # "none"
      /\ prosodyArg.t = "object"
      /\ prosodyArg.rate.t \in {"number", "undefined"}) =>
       /\ DOMAIN attempts[1] \subseteq {"voice", "rate"}
       /\ IF prosodyArg.rate = UndefinedValue THEN "rate" \notin DOMAIN attempts[1]
          ELSE \E p \in Percentages :
                 /\ IsNearestPercentage(p, prosodyArg.rate.n)
                 /\ "rate" \in DOMAIN attempts[1] <=> "rate" \in DOMAIN ExpectedProsody(p)
                 /\ "rate" \in DOMAIN attempts[1] => attempts[1].rate = ExpectedProsody(p).rate
                 /\ createProsodyOptions(prosodyArg.rate) = ExpectedProsody(p)

\* toStream was called with the rate 0.995, half way between 0% and -1%, and
\* asked the provider for '-1%'.
C10_Witness ==
  /\ clientKind = "universal"
  /\ handle = "returned"
  /\ prosodyArg = ProsodyObject(Num(995))
  /\ attempts[1] = [f \in {"voice", "rate"} |-> IF f = "voice" THEN Undefined ELSE "-1%"]

\* The text of a string without its leading and trailing whitespace: the one
\* piece of it that starts and ends with another character and has nothing
\* but whitespace before and after it (the empty string when there is none).
IsWhitespaceOnly(str) == \A i \in 1..Len(str) : SubSeq(str, i, i) \in Whitespace
Stripped(str) ==
  IF IsWhitespaceOnly(str) THEN ""
  ELSE LET i == CHOOSE a \in 1..Len(str) :
                  /\ SubSeq(str, a, a) \notin Whitespace
                  /\ IsWhitespaceOnly(SubSeq(str, 1, a - 1))
           j == CHOOSE b \in 1..Len(str) :
                  /\ SubSeq(str, b, b) \notin Whitespace
                  /\ IsWhitespaceOnly(SubSeq(str, b + 1, Len(str)))
       IN SubSeq(str, i, j)

\* The effective voice of a configuration, as the Client Selector is to
\* compute it.
EffectiveVoice(s) ==
  IF s.ttsEngine = "deepgram"
  THEN IF IsBlank(s.deepgramModel) THEN "aura-asteria-en" ELSE Stripped(s.deepgramModel)
  ELSE IF IsBlank(s.customVoice) THEN s.selectedVoice ELSE Stripped(s.customVoice)

\* C11: getVoiceForSettings(config) returns, for the HTTP backend, the trimmed
\* deepgramModel or 'aura-asteria-en' when that is missing or blank, whatever
\* customVoice and selectedVoice are; for any other engine the trimmed
\* customVoice when it is not blank and selectedVoice otherwise. The
\* configuration record is as it was before the call, and the client built
\* from a configuration for the HTTP backend starts with that voice as model.
C11_EffectiveVoice ==
  /\ lastCall.fn = "getVoiceForSettings" =>
       /\ lastCall.result = EffectiveVoice(lastCall.arg)
       /\ settings = lastCall.arg
  /\ (clientKind = "deepgram" /\ ~metaCalled) => model = EffectiveVoice(settings)

\* The effective voice was asked for on a configuration for the built-in
\* engine whose custom voice has spaces around it, and came back trimmed.
C11_Witness ==
  /\ lastCall.fn = "getVoiceForSettings"
  /\ lastCall.arg.ttsEngine = "edge-tts"
  /\ lastCall.arg.customVoice = " en-GB-RyanNeural\r\n"
  /\ lastCall.result = "en-GB-RyanNeural"

\* C12: a toStream call of the Generator-Backed Adapter constructs the
\* provider request once, and once more when that construction fails: then
\* with the voice alone. When both constructions fail the call raises: there
\* is no handle, no listener is registered, nothing is pulled and no event is
\* ever emitted. When one succeeds the handle is returned for the options
\* that were accepted, and nothing has been pulled before a listener is added.
C12_OneFallback ==
  (clientKind = "universal" /\ handle # "none") =>
    /\ Len(attempts) \in {1, 2}
    /\ Len(attempts) = 2 =>
         /\ DOMAIN attempts[2] = {"voice"}
         /\ attempts[2].voice = attempts[1].voice
    /\ handle = "threw" =>
         /\ Len(attempts) = 2
         /\ request = NoRequest
         /\ onCalls = 0 /\ loops = 0 /\ pc = "none"
         /\ produced = <<>> /\ emitted = <<>> /\ calls = <<>>
    /\ handle = "returned" =>
         /\ request = attempts[Len(attempts)]
         /\ onCalls = 0 => (pc = "lazy" /\ loops = 0 /\ produced = <<>> /\ emitted = <<>>)

\* Both constructions failed, the first with a rate option and the second
\* with the voice that had been set alone, and toStream raised.
C12_Witness ==
  /\ clientKind = "universal"
  /\ handle = "threw"
  /\ attempts = <<[f \in {"voice", "rate"} |->
                      IF f = "voice" THEN " en-GB-SoniaNeural\r\n" ELSE "+20%"],
                  [f \in {"voice"} |-> " en-GB-SoniaNeural\r\n"]>>

\* The error the provider's generator raises on a pull.
ProviderFailure == [ev |-> "error", args |-> <<Err("provider failure")>>]

\* C13: on a Generator-Backed session, a pull that raises after k chunks were
\* forwarded makes the session emit `error` with the error that was raised:
\* it is the one `error` event of the session and its last event (no `end`
\* and no `data` follows), and the k `data` events before it are all there
\* are. When the generator is exhausted, and no listener raised, the session
\* has emitted `end` and no `error`.
C13_GeneratorFailure ==
  clientKind = "universal" =>
    /\ \A i \in Positions("error") :
         emitted[i] = ProviderFailure =>
           /\ i = Len(emitted)
           /\ Positions("error") = {i}
           /\ \A j \in 1..(i - 1) : emitted[j].ev = "data"
    /\ (exhausted /\ ~AnyListenerRaised) =>
         /\ Positions("end") # {}
         /\ Positions("error") = {}

\* The error a failure of the request/consume task is reported with.
FailuresOf(how) ==
  CASE how = "rejected" -> {Err("network failure")}
    [] how = "notOk" -> {RequestFailed(r) : r \in {x \in Responses : ~x.ok}}
    [] how = "noBody" -> {Err("Deepgram response stream is not readable.")}
    [] how = "ok" -> {Err("read failure")}

\* C14: on an HTTP-Streaming session (listeners returning normally), once
\* the request was rejected, the response was not ok or had no readable
\* body, or a read failed after k chunks, the session has emitted its k
\* `data` events, then `error` with the cause, then `end`, and nothing else:
\* `error` once, `end` once and after it, and no `data` after the `error`.
C14_ErrorThenEnd ==
  clientKind = "deepgram" =>
    /\ fetched \in {"rejected", "notOk", "noBody"} => pc = "errored"
    /\ pc = "errored" =>
         LET n == Len(emitted)
         IN /\ n >= 2
            /\ emitted[n - 1].ev = "error"
            /\ \E e \in FailuresOf(fetched) : emitted[n - 1].args = <<e>>
            /\ emitted[n] = [ev |-> "end", args |-> <<>>]
            /\ \A i \in 1..(n - 2) : emitted[i].ev = "data"
            /\ Len(DataEvents) = Len(AudioBearing)
            /\ hasEnded
            /\ ~exhausted

\* A read failed after one chunk had been emitted, and the listeners heard
\* `data`, `error` and `end` in that order.
C14_Witness ==
  /\ clientKind = "deepgram"
  /\ emitted = <<[ev |-> "data", args |-> <<U8(<<1>>)>>],
                 [ev |-> "error", args |-> <<Err("read failure")>>],
                 [ev |-> "end", args |-> <<>>]>>
  /\ Len(calls) = 2
  /\ calls[1].ev = "error"
  /\ calls[2].ev = "end"

\* C15: on an HTTP-Streaming session that failed, a consumer that has
\* registered an `error` and an `end` listener and whose `end` listener was
\* invoked (by emit or by the replay of on) has had its `error` listener
\* invoked too.
C15_ErrorNotSuppressed ==
  (/\ clientKind = "deepgram"
   /\ Positions("error") # {}
   /\ listeners["error"] # <<>>
   /\ listeners["end"] # <<>>
   /\ \E c \in DOMAIN calls : calls[c].ev = "end") =>
    \E c \in DOMAIN calls : calls[c].ev = "error"

\* What the listener of the k-th on(...) call was invoked with by emit.
HeardBy(k) ==
  LET Mine(c) == c.id = k /\ c.via = "emit"
  IN SelectSeq(calls, Mine)

\* The events of its kind emitted after the k-th on(...) call.
EmittedAfter(k) ==
  LET OfItsKind(e) == e.ev = onLog[k].ev
  IN SelectSeq(SubSeq(emitted, Len(onLog[k].seen) + 1, Len(emitted)), OfItsKind)

\* The callback invocations one emit makes with the listeners registered at
\* that moment: those of the event, in registration order, up to the first
\* that raises.
InvokedBy(e) ==
  LET registered == listeners[e.ev]
      stops == {i \in DOMAIN registered : registered[i].raises}
      n == IF stops = {} THEN Len(registered)
           ELSE CHOOSE i \in stops : \A j \in stops : i <= j
  IN [i \in 1..n |-> [id |-> registered[i].id, ev |-> e.ev, args |-> e.args, via |-> "emit"]]

RECURSIVE InvokedByAll(_)
InvokedByAll(es) ==
  IF es = <<>> THEN <<>> ELSE InvokedBy(Head(es)) \o InvokedByAll(Tail(es))

\* C16: the handles buffer nothing but the replay of `end`. A listener is
\* invoked by emit only for events of its kind emitted after its
\* registration, for each of them once and in their order (an earlier
\* listener that raises cuts an emit short), so a `data` listener registered
\* after k chunks hears the later chunks only. A step that emits, of the
\* background task or of the host, invokes for each event it emits the
\* callbacks registered for that event at that moment in registration order
\* and no other; an on(...) call invokes nothing, except the replay of `end`
\* to its own callback.
C16_NoBuffering ==
  /\ [](\A k \in DOMAIN onLog :
          LET heard == HeardBy(k)
              after == EmittedAfter(k)
          IN /\ Len(heard) <= Len(after)
             /\ \A i \in 1..Len(heard) :
                  heard[i].ev = onLog[k].ev /\ heard[i].args = after[i].args
             /\ (\A i \in DOMAIN listeners[onLog[k].ev] :
                   listeners[onLog[k].ev][i].id < k => ~listeners[onLog[k].ev][i].raises)
                  => Len(heard) = Len(after)
             /\ onLog[k].ev # "end" => \A c \in DOMAIN calls : calls[c].id = k => calls[c].via = "emit")
  /\ [][IF onCalls' = onCalls
        THEN calls' = calls \o InvokedByAll(SubSeq(emitted', Len(emitted) + 1, Len(emitted')))
        ELSE /\ emitted' = emitted
             /\ \/ calls' = calls
                \/ /\ onLog'[onCalls'].ev = "end"
                   /\ Positions("end") # {}
                   /\ calls' = Append(calls, [id |-> onCalls', ev |-> "end",
                                              args |-> <<>>, via |-> "on"])]_vars

\* A second `data` listener was registered after a chunk emitted by the host
\* and the first chunk of the backend: it heard the backend's second chunk
\* only, after the first listener.
C16_Witness ==
  /\ Len(produced) = 2
  /\ hostEmits = 1
  /\ calls = <<[id |-> 1, ev |-> "data", args |-> <<U8(<<0>>)>>, via |-> "emit"],
               [id |-> 1, ev |-> "data", args |-> <<U8(<<1>>)>>, via |-> "emit"],
               [id |-> 1, ev |-> "data", args |-> <<U8(<<2>>)>>, via |-> "emit"],
               [id |-> 2, ev |-> "data", args |-> <<U8(<<2>>)>>, via |-> "emit"]>>

\* C17 as stated: the provider request of a session carries the voice and
\* the format stored in its client at the moment of the toStream call.
C17_UsesVoiceAndFormat ==
  [][(handle = "none" /\ handle' = "returned") =>
       IF clientKind = "deepgram"
       THEN request'.model = model /\ request'.encoding = format
       ELSE /\ Field(request', "voice") = currentVoice
            /\ Field(request', "format") = currentFormat]_vars

\* C17 as amended: toStream reads the client at the moment of the call, the
\* HTTP-Streaming Adapter its model and encoding, the Generator-Backed Adapter
\* its voice (the format stored by setMetadata is no part of its request);
\* once the handle is returned, no step, setMetadata included, changes the
\* request of the session or the options the provider was constructed with.
C17_CallTimeSnapshot ==
  /\ [][(handle = "none" /\ handle' = "returned") =>
          IF clientKind = "deepgram"
          THEN /\ request'.model = model
               /\ request'.encoding = format
               /\ request'.authorization = "Token " \o apiKey
          ELSE /\ request'.voice = currentVoice
               /\ DOMAIN request' \subseteq {"voice", "rate"}
               /\ \A i \in DOMAIN attempts' : attempts'[i].voice = currentVoice]_vars
  /\ [][handle = "returned" =>
          (handle' = handle /\ request' = request /\ attempts' = attempts
           /\ requests' = requests)]_vars

\* setMetadata was called while the Generator-Backed session was pulling: the
\* client holds the new voice and format, the request the voice of the call.
C17_Witness ==
  /\ clientKind = "universal"
  /\ pc = "pulling"
  /\ Len(produced) = 1
  /\ request.voice = Blank
  /\ currentVoice = " en-GB-SoniaNeural\r\n"
  /\ currentFormat = "webm-24khz-16bit-mono-opus"

\* C18 as stated: every session created by a toStream call that returned a
\* handle eventually emits a terminal event.
C18_AlwaysTerminal == (handle = "returned") ~> (Terminal # {})

\* C18 as amended: a session of the HTTP-Streaming Adapter, and a session of
\* the Generator-Backed Adapter once a `data` listener is registered on it,
\* eventually emits a terminal event, whatever its listeners do, when every
\* await of its task settles: the request, the reads, the pulls and the
\* return() the loop awaits after a `data` listener raised.
C18_EventuallyTerminal ==
  (handle = "returned" /\ (clientKind = "deepgram" \/ listeners["data"] # <<>>))
    ~> (Terminal # {})

\* A `data` listener of a Generator-Backed session raised on the second
\* chunk and the session ended with `error`.
C18_Witness ==
  /\ clientKind = "universal"
  /\ Len(produced) = 2
  /\ ListenerRaised("data")
  /\ emitted[Len(emitted)] = [ev |-> "error", args |-> <<ListenerError>>]
  /\ pc = "errored"

\* C19: on an HTTP-Streaming session `end` is emitted at most once, and
\* exactly once when the background task is over, whatever the listeners do;
\* and every `end` listener is invoked at most once.
C19_EndExactlyOnce ==
  clientKind = "deepgram" =>
    /\ Cardinality(Positions("end")) <= 1
    /\ pc \in {"ended", "errored", "crashed"} => Cardinality(Positions("end")) = 1
    /\ \A k \in DOMAIN onLog :
         Cardinality({c \in DOMAIN calls : calls[c].id = k /\ calls[c].ev = "end"}) <= 1

\* C20: on a Generator-Backed session the consumption loop is started at
\* most once. The latch isConsuming is set, and the loop started, by the
\* first on('data') call, and the latch is never reset: once it is set no
\* step starts a loop, and a later on('data') call, while the loop pulls or
\* after the session has ended or failed, leaves the loop where it stands.
C20_ConsumingLatch ==
  /\ [](clientKind = "universal" =>
          /\ loops <= 1
          /\ listeners["data"] # <<>> => isConsuming
          /\ isConsuming <=> loops >= 1)
  /\ [][(clientKind = "universal" /\ isConsuming) =>
          /\ isConsuming'
          /\ loops' = loops
          /\ onCalls' # onCalls => (pc' = pc /\ produced' = produced /\ emitted' = emitted)]_vars

====
